---- MODULE Spec2Model ----
(***************************************************************************)
(* Zaku: the streaming physical plan (Scan, Projection, Filter, Limit,     *)
(* Sort, HashAggregate) over record batches.                               *)
(*                                                                         *)
(* A stream is the sequence of batches an execute() yields, followed by    *)
(* the way it ends: "ok" (the generator returns), "error" (it yields an    *)
(* Err element) or "panic" (the thread unwinds).  A batch is a schema and  *)
(* a sequence of columns; a column is the sequence of its values (a        *)
(* LiteralVector of size n is the n copies its iterator produces).         *)
(* Column indexes keep the source's base 0; sequences are indexed from 1.  *)
(*                                                                         *)
(* The library functions that are called outside a plan (the operations of *)
(* Value, the accumulators, Schema::select, the SQL front end) are applied *)
(* in specifications of their own; the variable call holds the function,   *)
(* its arguments and what it returned.                                     *)
(***************************************************************************)
EXTENDS Integers, Sequences, FiniteSets, TLC

VARIABLES datasource, plan, logical_schema, plan_schema, child, stream, pulled,
          call

vars == <<datasource, plan, logical_schema, plan_schema, child, stream, pulled,
          call>>

(* ---- bounds of the model ---- *)
MaxBatches == 2     \* batches held by the datasource
MaxRows == 4        \* rows held by the datasource
MaxDepth == 1       \* operators planned above the Scan
MaxLimit == 2       \* largest LIMIT value
MaxNumber == 2      \* numbers passed to the operations of Value: -MaxNumber..MaxNumber
MaxInputs == 3      \* values fed to one accumulator
MaxNames == 3       \* names passed to Schema::select
\* Rows per batch produced by to_record_batch.  The program's value is 1024
\* (record_batch.rs:11); the model keeps the same code with a batch size
\* that the bounded inputs can reach and exceed.
VECTOR_SIZE == 3

(* ---- values (datatypes/types.rs) ---- *)
Null == [t |-> "Null", v |-> 0]
Number(n) == [t |-> "Number", v |-> n]
Boolean(b) == [t |-> "Boolean", v |-> IF b THEN 1 ELSE 0]
\* Date: v is the number of days since some first day
Date(n) == [t |-> "Date", v |-> n]
\* Text: v is the rank of the string in the lexicographic order of strings
Text(n) == [t |-> "Text", v |-> n]
\* the result of an operation that panics ("Type mismatch")
Panicked == [t |-> "Panic", v |-> 0]

\* #[derive(PartialEq)] on Value: same variant and same payload
ValueEq(a, b) == a.t = b.t /\ a.v = b.v

\* Ord on Value, as sort_by_key uses it: Null is the smallest value, values
\* of one type are ordered by their payload
ValueLe(a, b) ==
    IF a.t = "Null" THEN TRUE
    ELSE IF b.t = "Null" THEN FALSE
    ELSE a.v <= b.v

\* Value::and, Value::or: defined on Boolean x Boolean only
and(l, r) ==
    IF l.t = "Boolean" /\ r.t = "Boolean" THEN Boolean(l.v = 1 /\ r.v = 1)
    ELSE Panicked

or(l, r) ==
    IF l.t = "Boolean" /\ r.t = "Boolean" THEN Boolean(l.v = 1 \/ r.v = 1)
    ELSE Panicked

\* Value::eq, Value::neq
eq(l, r) ==
    IF l.t = "Null" THEN Boolean(FALSE)
    ELSE IF r.t = "Null" THEN Boolean(FALSE)
    ELSE IF l.t = r.t THEN Boolean(l.v = r.v)
    ELSE Panicked

neq(l, r) ==
    IF l.t = "Null" THEN Boolean(FALSE)
    ELSE IF r.t = "Null" THEN Boolean(FALSE)
    ELSE IF l.t = r.t THEN Boolean(l.v # r.v)
    ELSE Panicked

\* Value::gt, gte, lt, lte: a Boolean on the left panics before the right
\* operand is looked at
gt(l, r) ==
    IF l.t = "Null" THEN Boolean(FALSE)
    ELSE IF l.t = "Boolean" THEN Panicked
    ELSE IF r.t = "Null" THEN Boolean(FALSE)
    ELSE IF l.t = r.t THEN Boolean(l.v > r.v)
    ELSE Panicked

gte(l, r) ==
    IF l.t = "Null" THEN Boolean(FALSE)
    ELSE IF l.t = "Boolean" THEN Panicked
    ELSE IF r.t = "Null" THEN Boolean(FALSE)
    ELSE IF l.t = r.t THEN Boolean(l.v >= r.v)
    ELSE Panicked

lt(l, r) ==
    IF l.t = "Null" THEN Boolean(FALSE)
    ELSE IF l.t = "Boolean" THEN Panicked
    ELSE IF r.t = "Null" THEN Boolean(FALSE)
    ELSE IF l.t = r.t THEN Boolean(l.v < r.v)
    ELSE Panicked

lte(l, r) ==
    IF l.t = "Null" THEN Boolean(FALSE)
    ELSE IF l.t = "Boolean" THEN Panicked
    ELSE IF r.t = "Null" THEN Boolean(FALSE)
    ELSE IF l.t = r.t THEN Boolean(l.v <= r.v)
    ELSE Panicked

\* Value::add
add(l, r) ==
    IF l.t = "Number" THEN
        IF r.t = "Number" THEN Number(l.v + r.v)
        ELSE IF r.t = "Null" THEN Null
        ELSE Panicked
    ELSE IF l.t = "Null" THEN Null
    ELSE Panicked

\* Value::sub, Value::mul
sub(l, r) ==
    IF l.t = "Number" THEN
        IF r.t = "Number" THEN Number(l.v - r.v)
        ELSE IF r.t = "Null" THEN Null
        ELSE Panicked
    ELSE IF l.t = "Null" THEN Null
    ELSE Panicked

mul(l, r) ==
    IF l.t = "Number" THEN
        IF r.t = "Number" THEN Number(l.v * r.v)
        ELSE IF r.t = "Null" THEN Null
        ELSE Panicked
    ELSE IF l.t = "Null" THEN Null
    ELSE Panicked

\* the / and % of the integers: the quotient is rounded towards zero and
\* the remainder has the sign of the dividend
Abs(n) == IF n < 0 THEN -n ELSE n

Quotient(l, r) ==
    IF (l < 0) = (r < 0) THEN Abs(l) \div Abs(r) ELSE -(Abs(l) \div Abs(r))

Remainder(l, r) == l - r * Quotient(l, r)

\* Value::div, Value::modulo: `*l / *r` and `*l % *r` with no test of r, so
\* a zero divisor panics ("attempt to divide by zero")
div(l, r) ==
    IF l.t = "Number" THEN
        IF r.t = "Number" THEN
            IF r.v = 0 THEN Panicked ELSE Number(Quotient(l.v, r.v))
        ELSE IF r.t = "Null" THEN Null
        ELSE Panicked
    ELSE IF l.t = "Null" THEN Null
    ELSE Panicked

modulo(l, r) ==
    IF l.t = "Number" THEN
        IF r.t = "Number" THEN
            IF r.v = 0 THEN Panicked ELSE Number(Remainder(l.v, r.v))
        ELSE IF r.t = "Null" THEN Null
        ELSE Panicked
    ELSE IF l.t = "Null" THEN Null
    ELSE Panicked

\* Value::maximum, Value::minimum: defined on the ordered numeric types; a
\* Null operand is absorbed
maximum(l, r) ==
    IF l.t \in {"Number", "Date"} THEN
        IF r.t = l.t THEN [t |-> l.t, v |-> IF l.v >= r.v THEN l.v ELSE r.v]
        ELSE IF r.t = "Null" THEN l
        ELSE Panicked
    ELSE IF l.t = "Null" THEN
        IF r.t \in {"Null", "Number", "Date"} THEN r ELSE Panicked
    ELSE Panicked

minimum(l, r) ==
    IF l.t \in {"Number", "Date"} THEN
        IF r.t = l.t THEN [t |-> l.t, v |-> IF l.v <= r.v THEN l.v ELSE r.v]
        ELSE IF r.t = "Null" THEN l
        ELSE Panicked
    ELSE IF l.t = "Null" THEN
        IF r.t \in {"Null", "Number", "Date"} THEN r ELSE Panicked
    ELSE Panicked

(* ---- schemas and batches (datatypes/schema.rs, record_batch.rs) ---- *)
Field(name, datatype) == [name |-> name, datatype |-> datatype]

\* Schema::get_field: the first field of that name, as a sequence of zero
\* or one field
RECURSIVE get_field(_, _)
get_field(schema, name) ==
    IF schema = <<>> THEN <<>>
    ELSE IF Head(schema).name = name THEN <<Head(schema)>>
    ELSE get_field(Tail(schema), name)

\* Schema::select: walks the requested names and keeps those that resolve
RECURSIVE select(_, _)
select(schema, names) ==
    IF names = <<>> THEN <<>>
    ELSE get_field(schema, Head(names)) \o select(schema, Tail(names))

RecordBatch(schema, columns) == [schema |-> schema, columns |-> columns]

\* RecordBatch::row_count reads columns[0]; it is used on batches that have
\* at least one column
row_count(rb) == Len(rb.columns[1])

column_count(rb) == Len(rb.columns)

\* ColumnVector::new(datatype, vec![]) for every field of the schema
EmptyColumns(schema) == [i \in 1..Len(schema) |-> <<>>]

(* ---- helpers on sequences ---- *)
Take(s, n) == SubSeq(s, 1, IF n < Len(s) THEN n ELSE Len(s))

Reverse(s) == [i \in 1..Len(s) |-> s[Len(s) + 1 - i]]

RECURSIVE SelectIdx(_, _, _)
\* the indexes i of 1..n, in increasing order, for which keep[i] holds
SelectIdx(keep, i, n) ==
    IF i > n THEN <<>>
    ELSE (IF keep[i] THEN <<i>> ELSE <<>>) \o SelectIdx(keep, i + 1, n)

\* the rows of a batch, each row the tuple of its column values
RowsOf(rb) ==
    IF rb.columns = <<>> THEN <<>>
    ELSE [j \in 1..row_count(rb) |-> [i \in 1..Len(rb.columns) |-> rb.columns[i][j]]]

RECURSIVE RowsOfBatches(_)
RowsOfBatches(batches) ==
    IF batches = <<>> THEN <<>>
    ELSE RowsOf(Head(batches)) \o RowsOfBatches(Tail(batches))

Stream(batches, end) == [batches |-> batches, end |-> end]

(* ---- the datasource: an in-memory table of two columns ---- *)
SourceSchema == <<Field("a", "Number"), Field("b", "Boolean")>>

\* the table the rows of a datasource are read from, taken round and round
TableRows ==
    << <<Number(1), Null>>, <<Number(0), Boolean(TRUE)>>,
       <<Number(0), Boolean(FALSE)>>, <<Null, Boolean(TRUE)>> >>

TableRow(i) == TableRows[((i - 1) % Len(TableRows)) + 1]

\* n consecutive rows of the table, from row first on
RowRun(first, n) == [j \in 1..n |-> TableRow(first + j - 1)]

\* column format of a sequence of rows
BatchOfRows(schema, rows) ==
    RecordBatch(schema, [i \in 1..Len(schema) |-> [j \in 1..Len(rows) |-> rows[j][i]]])

\* the ways to cut len rows into k batches, empty batches included: c[i] is
\* the number of rows in the first i batches
Cuts(len, k) ==
    { c \in [0..k -> 0..len] :
        c[0] = 0 /\ c[k] = len /\ \A i \in 1..k : c[i - 1] <= c[i] }

BatchesOf(rows, c, k) ==
    [i \in 1..k |-> BatchOfRows(SourceSchema, SubSeq(rows, c[i - 1] + 1, c[i]))]

\* the data of MemDatasource::new: no batch at all, or at most MaxRows rows
\* in at most MaxBatches batches
SourceData ==
    {<<>>} \cup
    UNION { { BatchesOf(RowRun(first, n), c, k) : c \in Cuts(n, k) } :
              first \in 1..Len(TableRows), n \in 0..MaxRows, k \in 1..MaxBatches }

Datasources == { [schema |-> SourceSchema, data |-> d] : d \in SourceData }

\* the projection lists of a Scan: none, and one that names a column of the
\* table and a name the table does not have
Projections == { <<>>, <<"b", "zz">> }

(* ---- ScanExec (physical_plan.rs) ---- *)
\* ScanExec::execute: yields every batch of the datasource as it is
ScanExec_execute(ds) == Stream(ds.data, "ok")

\* ScanExec::schema
ScanExec_schema(ds, projection) == select(ds.schema, projection)

\* logical Scan::schema
Scan_schema(ds, projection) ==
    IF projection # <<>> THEN select(ds.schema, projection) ELSE ds.schema

(* ---- expressions (logical_expr.rs, physical_expr.rs, binary_expr.rs) ---- *)
\* BooleanOp without And and Or, and MathOp
ComparisonOps == {"eq", "neq", "gt", "gte", "lt", "lte"}
ArithmeticOps == {"add", "sub", "mul", "div", "mod"}

\* logical expressions
Column(name) == [e |-> "Column", name |-> name]
Literal(val) == [e |-> "Literal", val |-> val]
BinaryExpr(l, op, r) == [e |-> "BinaryExpr", l |-> l, op |-> op, r |-> r]
\* the reference to the i-th (from 0) field of the input, which the SQL
\* front end puts in the place of an aggregate
ColumnIndex(i) == [e |-> "ColumnIndex", i |-> i]

\* the field a ColumnIndex resolves to, by position
column_index_to_field(i, schema) ==
    IF i < Len(schema) THEN <<schema[i + 1]>> ELSE <<>>

\* physical expressions
PhysColumn(i) == [e |-> "Column", i |-> i]
PhysLiteral(val) == [e |-> "Literal", val |-> val]
PhysBooleanExpr(l, op, r) == [e |-> "BooleanExpr", l |-> l, op |-> op, r |-> r]
PhysMathExpr(l, op, r) == [e |-> "MathExpr", l |-> l, op |-> op, r |-> r]

\* Schema::get_index: position of the first field of that name, -1 for Err
RECURSIVE get_index_from(_, _, _)
get_index_from(schema, name, i) ==
    IF i > Len(schema) THEN -1
    ELSE IF schema[i].name = name THEN i - 1
    ELSE get_index_from(schema, name, i + 1)

get_index(schema, name) == get_index_from(schema, name, 1)

RECURSIVE to_field(_, _)

\* get_datatype: both sides resolve and have the same datatype
get_datatype_ok(l, r, schema) ==
    /\ to_field(l, schema) # <<>>
    /\ to_field(r, schema) # <<>>
    /\ to_field(l, schema)[1].datatype = to_field(r, schema)[1].datatype

\* LogicalExpr::to_field against the input's schema: <<field>> for Ok,
\* <<>> for Err.  A BooleanExpr is a Boolean field whatever its operands; a
\* MathExpr has the datatype get_datatype gives its operands.
to_field(expr, schema) ==
    IF expr.e = "Column" THEN get_field(schema, expr.name)
    ELSE IF expr.e = "Literal" THEN <<Field(ToString(expr.val.v), expr.val.t)>>
    ELSE IF expr.e = "ColumnIndex" THEN column_index_to_field(expr.i, schema)
    ELSE IF expr.op \in ArithmeticOps THEN
        IF get_datatype_ok(expr.l, expr.r, schema)
        THEN <<Field(expr.op, to_field(expr.l, schema)[1].datatype)>>
        ELSE <<>>
    ELSE <<Field(expr.op, "Boolean")>>

\* LogicalExpr::to_physical_expr succeeds: a BooleanExpr asks get_datatype
\* first, a MathExpr only lowers its operands
RECURSIVE to_physical_ok(_, _)
to_physical_ok(expr, schema) ==
    IF expr.e = "Column" THEN get_index(schema, expr.name) >= 0
    ELSE IF expr.e = "Literal" THEN TRUE
    ELSE /\ expr.op \in ArithmeticOps \/ get_datatype_ok(expr.l, expr.r, schema)
         /\ to_physical_ok(expr.l, schema)
         /\ to_physical_ok(expr.r, schema)

\* LogicalExpr::to_physical_expr
RECURSIVE to_physical_expr(_, _)
to_physical_expr(expr, schema) ==
    IF expr.e = "Column" THEN PhysColumn(get_index(schema, expr.name))
    ELSE IF expr.e = "Literal" THEN PhysLiteral(expr.val)
    ELSE IF expr.op \in ArithmeticOps
    THEN PhysMathExpr(to_physical_expr(expr.l, schema), expr.op,
                      to_physical_expr(expr.r, schema))
    ELSE PhysBooleanExpr(to_physical_expr(expr.l, schema), expr.op,
                         to_physical_expr(expr.r, schema))

\* BooleanExpr::evaluate_row
evaluate_row(op, l, r) ==
    CASE op = "and" -> and(l, r)
      [] op = "or" -> or(l, r)
      [] op = "eq" -> eq(l, r)
      [] op = "neq" -> neq(l, r)
      [] op = "gt" -> gt(l, r)
      [] op = "gte" -> gte(l, r)
      [] op = "lt" -> lt(l, r)
      [] op = "lte" -> lte(l, r)

\* MathExpr::evaluate_row
Math_evaluate_row(op, l, r) ==
    CASE op = "add" -> add(l, r)
      [] op = "sub" -> sub(l, r)
      [] op = "mul" -> mul(l, r)
      [] op = "div" -> div(l, r)
      [] op = "mod" -> modulo(l, r)

\* a column whose evaluation panicked
PanicColumn == <<Panicked>>

IsPanic(col) == \E j \in 1..Len(col) : col[j].t = "Panic"

\* PhysicalExprs::evaluate: the column of batch.row_count() values the
\* expression has on the batch
RECURSIVE evaluate(_, _)
evaluate(expr, batch) ==
    LET size == row_count(batch) IN
    IF expr.e = "Column" THEN
        IF expr.i >= column_count(batch) THEN PanicColumn
        ELSE batch.columns[expr.i + 1]
    ELSE IF expr.e = "Literal" THEN [j \in 1..size |-> expr.val]
    ELSE LET l == evaluate(expr.l, batch)
             r == evaluate(expr.r, batch)
         IN IF IsPanic(l) \/ IsPanic(r) THEN PanicColumn
            ELSE [j \in 1..size |->
                     IF expr.e = "MathExpr"
                     THEN Math_evaluate_row(expr.op, l[j], r[j])
                     ELSE evaluate_row(expr.op, l[j], r[j])]

(* ---- ProjectionExec ---- *)
\* ProjectionExec::execute: one batch of the evaluated expressions per input
\* batch
RECURSIVE ProjectionExec_execute(_, _, _)
ProjectionExec_execute(schema, expr, in) ==
    IF in.batches = <<>> THEN Stream(<<>>, in.end)
    ELSE LET rb == Head(in.batches)
             columns == [k \in 1..Len(expr) |-> evaluate(expr[k], rb)]
         IN IF \E k \in 1..Len(expr) : IsPanic(columns[k])
            THEN Stream(<<>>, "panic")
            ELSE LET rest == ProjectionExec_execute(schema, expr,
                                 Stream(Tail(in.batches), in.end))
                 IN Stream(<<RecordBatch(schema, columns)>> \o rest.batches, rest.end)

(* ---- FilterExec ---- *)
\* the closure of FilterExec::execute keeping every row whose predicate is
\* not Boolean(false)
FilterColumn_KeepNotFalse(c, eval_col) ==
    LET keep == [j \in 1..Len(c) |-> ~ValueEq(eval_col[j], Boolean(FALSE))]
        idx == SelectIdx(keep, 1, Len(c))
    IN [k \in 1..Len(idx) |-> c[idx[k]]]

\* the closure of FilterExec::execute: the values of column c at the rows
\* where the predicate column is Boolean(true)
FilterColumn(c, eval_col) ==
    LET keep == [j \in 1..Len(c) |-> ValueEq(eval_col[j], Boolean(TRUE))]
        idx == SelectIdx(keep, 1, Len(c))
    IN [k \in 1..Len(idx) |-> c[idx[k]]]

\* FilterExec::execute
RECURSIVE FilterExec_execute(_, _, _)
FilterExec_execute(schema, expr, in) ==
    IF in.batches = <<>> THEN Stream(<<>>, in.end)
    ELSE LET rb == Head(in.batches)
             eval_col == evaluate(expr, rb)
         IN IF IsPanic(eval_col) THEN Stream(<<>>, "panic")
            ELSE LET cols == [i \in 1..Len(rb.columns) |->
                                 FilterColumn(rb.columns[i], eval_col)]
                     rest == FilterExec_execute(schema, expr,
                                 Stream(Tail(in.batches), in.end))
                 IN Stream(<<RecordBatch(schema, cols)>> \o rest.batches, rest.end)

(* ---- LimitExec ---- *)
\* the for_await loop of LimitExec::execute from the i-th input item on:
\* the batches it yields, how the stream ends, and how many batches it has
\* taken from its child when it ends
RECURSIVE LimitLoop(_, _, _, _)
LimitLoop(schema, in, i, counter) ==
    IF i > Len(in.batches) THEN
        \* the child's stream is over: its end, or its Err element, which
        \* the loop drops when counter = 0 and returns otherwise
        IF in.end = "error" /\ counter = 0
        THEN [batches |-> <<>>, end |-> "ok", pulled |-> i - 1]
        ELSE [batches |-> <<>>, end |-> in.end, pulled |-> i - 1]
    ELSE IF counter = 0 THEN [batches |-> <<>>, end |-> "ok", pulled |-> i]
    ELSE LET rb == in.batches[i]
             take == IF counter > row_count(rb) THEN row_count(rb) ELSE counter
             left == IF counter > row_count(rb) THEN counter - row_count(rb) ELSE 0
             cols == [c \in 1..Len(rb.columns) |-> Take(rb.columns[c], take)]
             rest == LimitLoop(schema, in, i + 1, left)
         IN [batches |-> <<RecordBatch(schema, cols)>> \o rest.batches,
             end |-> rest.end, pulled |-> rest.pulled]

\* LimitExec::execute with the counter started one too high
LimitExec_execute_OffByOne(schema, limit, in) ==
    LET first == IF limit = 0 THEN <<RecordBatch(schema, EmptyColumns(schema))>>
                 ELSE <<>>
        loop == LimitLoop(schema, in, 1, limit + 1)
    IN [batches |-> first \o loop.batches, end |-> loop.end, pulled |-> loop.pulled]

\* LimitExec::execute without the special case for limit 0
LimitExec_execute_NoEmptyBatch(schema, limit, in) ==
    LET loop == LimitLoop(schema, in, 1, limit)
    IN [batches |-> loop.batches, end |-> loop.end, pulled |-> loop.pulled]

\* LimitExec::execute: for limit 0 an empty batch first, then the loop
LimitExec_execute(schema, limit, in) ==
    LET first == IF limit = 0 THEN <<RecordBatch(schema, EmptyColumns(schema))>>
                 ELSE <<>>
        loop == LimitLoop(schema, in, 1, limit)
    IN [batches |-> first \o loop.batches, end |-> loop.end, pulled |-> loop.pulled]

(* ---- RecordBatch::to_record_batch ---- *)
\* the values of col that land in batch number batch_no (from 0): those at
\* the positions j (from 0) with j / VECTOR_SIZE = batch_no
Segment(col, batch_no) ==
    SubSeq(col, batch_no * VECTOR_SIZE + 1,
           IF (batch_no + 1) * VECTOR_SIZE < Len(col)
           THEN (batch_no + 1) * VECTOR_SIZE ELSE Len(col))

\* RecordBatch::to_record_batch with the number of batches rounded down: no
\* batch for a table of fewer than VECTOR_SIZE columns
to_record_batch_RoundedDown(cols, schema) ==
    LET schema_len == Len(schema)
        num_batches == Len(cols) \div VECTOR_SIZE
    IN IF \E i \in 1..Len(cols) : cols[i] # <<>> /\ i > schema_len THEN <<>>
       ELSE << [b \in 1..num_batches |->
                   RecordBatch(schema,
                       [i \in 1..schema_len |->
                           IF i <= Len(cols) THEN Segment(cols[i], b - 1) ELSE <<>>])] >>

\* RecordBatch::to_record_batch: the number of batches is computed from the
\* number of columns; a value whose batch number is not below it is pushed
\* out of bounds.  <<batches>> for a result, <<>> for the panic.
to_record_batch(cols, schema) ==
    LET schema_len == Len(schema)
        num_batches == (Len(cols) \div VECTOR_SIZE) + 1
        out_of_bounds ==
            \E i \in 1..Len(cols) :
                /\ cols[i] # <<>>
                /\ \/ (Len(cols[i]) - 1) \div VECTOR_SIZE >= num_batches
                   \/ i > schema_len
    IN IF out_of_bounds THEN <<>>
       ELSE << [b \in 1..num_batches |->
                   RecordBatch(schema,
                       [i \in 1..schema_len |->
                           IF i <= Len(cols) THEN Segment(cols[i], b - 1) ELSE <<>>])] >>

(* ---- SortExec ---- *)
\* Vec::sort_by_key is stable: index i goes behind every index already
\* placed whose key is not greater
RECURSIVE InsertByKey(_, _, _)
InsertByKey(sorted, i, col) ==
    IF sorted = <<>> THEN <<i>>
    ELSE IF ValueLe(col[Head(sorted)], col[i])
         THEN <<Head(sorted)>> \o InsertByKey(Tail(sorted), i, col)
         ELSE <<i>> \o sorted

\* indices = (0..len).collect(); indices.sort_by_key(|&i| col[i])
RECURSIVE sort_by_key(_, _)
sort_by_key(col, n) ==
    IF n = 0 THEN <<>> ELSE InsertByKey(sort_by_key(col, n - 1), n, col)

\* Vectors::sort_indices: the indexes of the column in ascending order of
\* their values, equal values in index order
sort_indices(col) == sort_by_key(col, Len(col))

\* Vectors::reorder
reorder(col, indices) == [j \in 1..Len(indices) |-> col[indices[j]]]

\* one pass reads key column k and the flag asc[len - 1 - i]; it panics on
\* an index that is out of bounds
PassPanics(cols, keys, asc, i) ==
    \/ i >= Len(asc)
    \/ keys[Len(keys) - i] >= Len(cols)
    \/ \E c \in 1..Len(cols) : Len(cols[c]) < Len(cols[keys[Len(keys) - i] + 1])

\* RecordBatch::sort, from pass i (from 0) of keys.iter().rev().enumerate()
\* on: <<columns>> for a result, <<>> for a panic
RECURSIVE RecordBatch_sort(_, _, _, _)
RecordBatch_sort(sorted_cols, keys, asc, i) ==
    IF i >= Len(keys) THEN <<sorted_cols>>
    ELSE IF PassPanics(sorted_cols, keys, asc, i) THEN <<>>
    ELSE LET k == keys[Len(keys) - i]
             sorted == sort_indices(sorted_cols[k + 1])
             indices == IF ~asc[Len(asc) - i] THEN Reverse(sorted) ELSE sorted
             new_sorted_cols == [c \in 1..Len(sorted_cols) |->
                                    reorder(sorted_cols[c], indices)]
         IN RecordBatch_sort(new_sorted_cols, keys, asc, i + 1)

\* "Sort all values" with the test of the asc flag inverted: the indices
\* are reversed for an ascending key
RECURSIVE SortAllValues_FlagInverted(_, _, _, _)
SortAllValues_FlagInverted(cols, sort_keys_idx, asc, i) ==
    IF i >= Len(sort_keys_idx) THEN <<cols>>
    ELSE IF PassPanics(cols, sort_keys_idx, asc, i) THEN <<>>
    ELSE LET k == sort_keys_idx[Len(sort_keys_idx) - i]
             sorted == sort_by_key(cols[k + 1], Len(cols[k + 1]))
             indices == IF asc[Len(asc) - i] THEN Reverse(sorted) ELSE sorted
             new_sorted_cols == [c \in 1..Len(cols) |->
                                    [j \in 1..Len(indices) |-> cols[c][indices[j]]]]
         IN SortAllValues_FlagInverted(new_sorted_cols, sort_keys_idx, asc, i + 1)

\* "Sort all values" of SortExec::execute, from pass i (from 0) on
RECURSIVE SortAllValues(_, _, _, _)
SortAllValues(cols, sort_keys_idx, asc, i) ==
    IF i >= Len(sort_keys_idx) THEN <<cols>>
    ELSE IF PassPanics(cols, sort_keys_idx, asc, i) THEN <<>>
    ELSE LET k == sort_keys_idx[Len(sort_keys_idx) - i]
             sorted == sort_by_key(cols[k + 1], Len(cols[k + 1]))
             indices == IF ~asc[Len(asc) - i] THEN Reverse(sorted) ELSE sorted
             new_sorted_cols == [c \in 1..Len(cols) |->
                                    [j \in 1..Len(indices) |-> cols[c][indices[j]]]]
         IN SortAllValues(new_sorted_cols, sort_keys_idx, asc, i + 1)

\* "Aggregate and materialize all values": every input batch is sorted and
\* its columns are appended to cols.  <<cols>> for a result, <<>> for a panic
RECURSIVE Materialize(_, _, _, _)
Materialize(cols, sort_keys_idx, asc, batches) ==
    IF batches = <<>> THEN <<cols>>
    ELSE LET rb == RecordBatch_sort(Head(batches).columns, sort_keys_idx, asc, 0)
         IN IF rb = <<>> THEN <<>>
            ELSE IF Len(rb[1]) > Len(cols) THEN <<>>
            ELSE Materialize(
                     [i \in 1..Len(cols) |->
                         IF i <= Len(rb[1]) THEN cols[i] \o rb[1][i] ELSE cols[i]],
                     sort_keys_idx, asc, Tail(batches))

\* the flat_map of SortExec::execute: the indexes of the keys that are
\* columns; the other keys yield Err, which flat_map leaves out
RECURSIVE sort_keys_idx_of(_)
sort_keys_idx_of(sort_keys) ==
    IF sort_keys = <<>> THEN <<>>
    ELSE (IF Head(sort_keys).e = "Column" THEN <<Head(sort_keys).i>> ELSE <<>>)
         \o sort_keys_idx_of(Tail(sort_keys))

\* SortExec::execute
SortExec_execute(schema, sort_keys, asc, in) ==
    LET sort_keys_idx == sort_keys_idx_of(sort_keys)
        cols == Materialize(EmptyColumns(schema), sort_keys_idx, asc, in.batches)
    IN IF cols = <<>> THEN Stream(<<>>, "panic")
       ELSE IF in.end # "ok" THEN Stream(<<>>, in.end)
       ELSE LET sorted == SortAllValues(cols[1], sort_keys_idx, asc, 0)
            IN IF sorted = <<>> THEN Stream(<<>>, "panic")
               ELSE LET rbs == to_record_batch(sorted[1], schema)
                    IN IF rbs = <<>> THEN Stream(<<>>, "panic")
                       ELSE Stream(rbs[1], "ok")

(* ---- accumulators (physical_plans/accumulator.rs) ---- *)
\* An accumulator is its kind, its Option<Value> (<<>> for None) and, for
\* Count, its counter.  accumulate gives the new accumulator and "ok", or
\* the unchanged one and "error" (Err) or "panic".
Accumulator(kind) == [kind |-> kind, value |-> <<>>, count |-> 0]

Accumulated(acc, val) ==
    IF val.t = "Panic" THEN [acc |-> acc, res |-> "panic"]
    ELSE [acc |-> [acc EXCEPT !.value = <<val>>], res |-> "ok"]

Failed(acc) == [acc |-> acc, res |-> "error"]

\* Sum::accumulate
Sum_accumulate(acc, value) ==
    IF acc.value # <<>> THEN
        IF value.t = "Number" THEN Accumulated(acc, add(acc.value[1], value))
        ELSE IF value.t = "Null" THEN Accumulated(acc, add(acc.value[1], Number(0)))
        ELSE Failed(acc)
    ELSE
        IF value.t = "Number" THEN Accumulated(acc, value)
        ELSE IF value.t = "Null" THEN Accumulated(acc, Number(0))
        ELSE Failed(acc)

\* Count::accumulate
Count_accumulate(acc, value) ==
    [acc |-> [acc EXCEPT !.count = @ + 1], res |-> "ok"]

\* Min::accumulate
Min_accumulate(acc, value) ==
    IF acc.value # <<>> THEN
        LET v == acc.value[1] IN
        IF v.t = "Number" THEN Accumulated(acc, minimum(v, value))
        ELSE IF v.t = "Date" THEN Accumulated(acc, minimum(v, value))
        ELSE IF v.t = "Null" THEN Accumulated(acc, value)
        ELSE Failed(acc)
    ELSE Accumulated(acc, value)

\* Max::accumulate
Max_accumulate(acc, value) ==
    IF acc.value # <<>> THEN
        LET v == acc.value[1] IN
        IF v.t = "Number" THEN Accumulated(acc, maximum(v, value))
        ELSE IF v.t = "Date" THEN Accumulated(acc, minimum(v, value))
        ELSE IF v.t = "Null" THEN Accumulated(acc, value)
        ELSE Failed(acc)
    ELSE Accumulated(acc, value)

\* Avg::accumulate with a Null left out of the count
Avg_accumulate_SkipsNull(acc, value) ==
    LET summed == Sum_accumulate(acc, value)
    IN IF summed.res # "ok" \/ value.t = "Null" THEN summed
       ELSE [summed EXCEPT !.acc.count = @ + 1]

\* Avg::accumulate: the sum as Sum keeps it, and the count of the values
\* that were added
Avg_accumulate(acc, value) ==
    LET summed == Sum_accumulate(acc, value)
    IN IF summed.res # "ok" THEN summed
       ELSE [summed EXCEPT !.acc.count = @ + 1]

\* Accumulator::accumulate, dispatched on the kind
accumulate(acc, value) ==
    CASE acc.kind = "Sum" -> Sum_accumulate(acc, value)
      [] acc.kind = "Count" -> Count_accumulate(acc, value)
      [] acc.kind = "Min" -> Min_accumulate(acc, value)
      [] acc.kind = "Max" -> Max_accumulate(acc, value)
      [] acc.kind = "Avg" -> Avg_accumulate(acc, value)

\* Accumulator::get_value
get_value(acc) ==
    IF acc.kind = "Count" THEN Number(acc.count)
    ELSE IF acc.value = <<>> THEN Null
    ELSE IF acc.kind = "Avg" THEN div(acc.value[1], Number(acc.count))
    ELSE acc.value[1]

(* ---- HashAggregateExec ---- *)
\* logical and physical aggregate expressions
AggregateExpr(kind, input) == [e |-> "AggregateExpr", kind |-> kind, input |-> input]

\* AggregateExprs::to_field
aggregate_to_field(aggr, schema) ==
    IF aggr.kind = "Count" THEN <<Field("count", "Number")>>
    ELSE IF aggr.kind = "Sum" THEN <<Field("sum", "Number")>>
    ELSE IF aggr.kind = "Avg" THEN <<Field("avg", "Number")>>
    ELSE IF to_field(aggr.input, schema) = <<>> THEN <<>>
    ELSE IF aggr.kind = "Min"
         THEN <<Field("min", to_field(aggr.input, schema)[1].datatype)>>
         ELSE <<Field("max", to_field(aggr.input, schema)[1].datatype)>>

\* AggregateExprs::to_physical_aggregate
to_physical_aggregate(aggr, schema) ==
    [kind |-> aggr.kind, input_expr |-> to_physical_expr(aggr.input, schema)]

\* the aggregator_map is the sequence of its entries in order of insertion;
\* a key is found by Value's equality
RECURSIVE find_entry(_, _, _)
find_entry(map, row_key, n) ==
    IF n > Len(map) THEN 0
    ELSE IF /\ Len(map[n].key) = Len(row_key)
            /\ \A g \in 1..Len(row_key) : ValueEq(map[n].key[g], row_key[g])
         THEN n
         ELSE find_entry(map, row_key, n + 1)

\* accumulators.iter_mut().zip(aggr_input).try_for_each(accumulate), from
\* accumulator a on: it stops at the first Err
RECURSIVE accumulate_all(_, _, _)
accumulate_all(accs, values, a) ==
    IF a > Len(accs) \/ a > Len(values) THEN [accs |-> accs, res |-> "ok"]
    ELSE LET r == accumulate(accs[a], values[a])
         IN IF r.res # "ok" THEN [accs |-> accs, res |-> r.res]
            ELSE accumulate_all([accs EXCEPT ![a] = r.acc], values, a + 1)

\* the try_for_each over the rows i (from 1) of one batch
RECURSIVE aggregate_rows(_, _, _, _, _, _)
aggregate_rows(map, aggr_expr, group_keys, aggr_input, i, n) ==
    IF i > n THEN [map |-> map, res |-> "ok"]
    ELSE LET row_key == [g \in 1..Len(group_keys) |-> group_keys[g][i]]
             found == find_entry(map, row_key, 1)
             at == IF found = 0 THEN Len(map) + 1 ELSE found
             accumulators ==
                 IF found = 0
                 THEN [a \in 1..Len(aggr_expr) |-> Accumulator(aggr_expr[a].kind)]
                 ELSE map[found].accs
             r == accumulate_all(accumulators,
                                 [a \in 1..Len(aggr_input) |-> aggr_input[a][i]], 1)
             entry == [key |-> row_key, accs |-> r.accs]
             new_map == IF found = 0 THEN Append(map, entry)
                        ELSE [map EXCEPT ![found] = entry]
         IN IF r.res # "ok" THEN [map |-> new_map, res |-> r.res]
            ELSE aggregate_rows(new_map, aggr_expr, group_keys, aggr_input, i + 1, n)

\* the for_await loop of HashAggregateExec::execute over the input batches
RECURSIVE aggregate_batches(_, _, _, _)
aggregate_batches(map, group_expr, aggr_expr, batches) ==
    IF batches = <<>> THEN [map |-> map, res |-> "ok"]
    ELSE LET rb == Head(batches)
             group_keys == [g \in 1..Len(group_expr) |-> evaluate(group_expr[g], rb)]
             aggr_input == [a \in 1..Len(aggr_expr) |->
                               evaluate(aggr_expr[a].input_expr, rb)]
         IN IF \/ \E g \in 1..Len(group_expr) : IsPanic(group_keys[g])
               \/ \E a \in 1..Len(aggr_expr) : IsPanic(aggr_input[a])
            THEN [map |-> map, res |-> "panic"]
            ELSE LET r == aggregate_rows(map, aggr_expr, group_keys, aggr_input,
                                         1, row_count(rb))
                 IN IF r.res # "ok" THEN r
                    ELSE aggregate_batches(r.map, group_expr, aggr_expr, Tail(batches))

\* the columns built from the map's entries, visited in the given order:
\* the key values, then the value of every accumulator
aggregate_columns(map, order, schema) ==
    [c \in 1..Len(schema) |->
        [n \in 1..Len(order) |->
            LET e == map[order[n]]
            IN IF c <= Len(e.key) THEN e.key[c]
               ELSE get_value(e.accs[c - Len(e.key)])]]

\* the orders in which a HashMap of n entries can be iterated
IterationOrders(n) ==
    { o \in [1..n -> 1..n] : \A i, j \in 1..n : o[i] = o[j] => i = j }

\* the end of HashAggregateExec::execute: r is the outcome of the loop over
\* the input, in_end the way the input ended; the map is iterated in the
\* given order
aggregate_emit(schema, r, in_end, order) ==
    IF r.res # "ok" THEN Stream(<<>>, r.res)
    ELSE IF in_end # "ok" THEN Stream(<<>>, in_end)
    ELSE LET rbs == to_record_batch(aggregate_columns(r.map, order, schema), schema)
         IN IF rbs = <<>> THEN Stream(<<>>, "panic")
            ELSE Stream(rbs[1], "ok")

\* HashAggregateExec::execute, the map being iterated in the given order
HashAggregateExec_execute(schema, group_expr, aggr_expr, in, order) ==
    aggregate_emit(schema,
                   aggregate_batches(<<>>, group_expr, aggr_expr, in.batches),
                   in.end, order)

(* ---- the inputs of the planner ---- *)
ProjectionLists ==
    { <<Column("b"), Column("a")>>, <<Column("a"), Literal(Number(1))>> }

Predicates ==
    { Column("b"), BinaryExpr(Column("a"), "gt", Literal(Number(0))) }

SortKeyLists == { <<Column("a")>>, <<Column("a"), Column("b")>> }

\* GROUP BY lists with the aggregates computed per group
Aggregations ==
    { [group_by |-> <<>>, aggregates |-> <<AggregateExpr("Count", Column("b"))>>],
      [group_by |-> <<Column("a")>>,
       aggregates |-> <<AggregateExpr("Sum", Column("a")),
                        AggregateExpr("Max", Column("a"))>>],
      [group_by |-> <<Column("b")>>,
       aggregates |-> <<AggregateExpr("Min", Column("a"))>>],
      [group_by |-> <<Column("b"), Column("a")>>, aggregates |-> <<>>],
      [group_by |-> <<Column("a")>>,
       aggregates |-> <<AggregateExpr("Sum", Column("b"))>>] }

Top == plan[Len(plan)]

\* a Dataframe is grown by at most MaxDepth operators above its Scan, and by
\* one more above a plan whose stream has yielded an Err
CanPlan ==
    /\ plan # <<>>
    /\ \/ Len(plan) <= MaxDepth
       \/ Len(plan) = MaxDepth + 1 /\ stream.end = "error"

\* no library function has been called
NoCall == [fn |-> "none", args |-> <<>>, out |-> <<>>]

\* no plan is built while a library function is applied
NoPlan ==
    /\ datasource = [schema |-> SourceSchema, data |-> <<>>]
    /\ plan = <<>>
    /\ logical_schema = <<>>
    /\ plan_schema = <<>>
    /\ child = Stream(<<>>, "ok")
    /\ stream = Stream(<<>>, "ok")
    /\ pulled = 0

Init ==
    /\ datasource \in Datasources
    /\ plan = <<>>
    /\ logical_schema = <<>>
    /\ plan_schema = <<>>
    /\ child = Stream(<<>>, "ok")
    /\ stream = Stream(<<>>, "ok")
    /\ pulled = 0
    /\ call = NoCall

\* Dataframe over a Scan, planned and executed
Scan(projection) ==
    /\ plan = <<>>
    /\ plan' = <<[op |-> "Scan", projection |-> projection]>>
    /\ logical_schema' = Scan_schema(datasource, projection)
    /\ plan_schema' = ScanExec_schema(datasource, projection)
    /\ child' = Stream(<<>>, "ok")
    /\ stream' = ScanExec_execute(datasource)
    /\ pulled' = 0
    /\ UNCHANGED <<datasource, call>>

\* Dataframe::projection, Projection::to_physical_plan and the execution of
\* the plan
Projection(exprs) ==
    /\ CanPlan
    /\ \A k \in 1..Len(exprs) :
          to_field(exprs[k], logical_schema) # <<>>
          /\ to_physical_ok(exprs[k], logical_schema)
    /\ LET schema == [k \in 1..Len(exprs) |-> to_field(exprs[k], logical_schema)[1]]
           expr == [k \in 1..Len(exprs) |-> to_physical_expr(exprs[k], logical_schema)]
       IN /\ plan' = Append(plan, [op |-> "Projection", expr |-> expr])
          /\ logical_schema' = schema
          /\ plan_schema' = schema
          /\ stream' = ProjectionExec_execute(schema, expr, stream)
    /\ child' = stream
    /\ pulled' = 0
    /\ UNCHANGED <<datasource, call>>

\* Dataframe::filter, Filter::to_physical_plan and the execution of the plan
Filter(pred) ==
    /\ CanPlan
    /\ to_physical_ok(pred, logical_schema)
    /\ LET expr == to_physical_expr(pred, logical_schema)
       IN /\ plan' = Append(plan, [op |-> "Filter", expr |-> expr])
          /\ stream' = FilterExec_execute(logical_schema, expr, stream)
    /\ plan_schema' = logical_schema
    /\ child' = stream
    /\ pulled' = 0
    /\ UNCHANGED <<datasource, logical_schema, call>>

\* Dataframe::limit, Limit::to_physical_plan and the execution of the plan
Limit(limit) ==
    /\ CanPlan
    /\ LET res == LimitExec_execute(logical_schema, limit, stream)
       IN /\ stream' = Stream(res.batches, res.end)
          /\ pulled' = res.pulled
    /\ plan' = Append(plan, [op |-> "Limit", limit |-> limit])
    /\ plan_schema' = logical_schema
    /\ child' = stream
    /\ UNCHANGED <<datasource, logical_schema, call>>

\* Dataframe::sort, Sort::to_physical_plan and the execution of the plan
Sort(keys, asc) ==
    /\ CanPlan
    /\ \A k \in 1..Len(keys) : to_physical_ok(keys[k], logical_schema)
    /\ LET sort_keys == [k \in 1..Len(keys) |-> to_physical_expr(keys[k], logical_schema)]
       IN /\ plan' = Append(plan, [op |-> "Sort", sort_keys |-> sort_keys, asc |-> asc])
          /\ stream' = SortExec_execute(logical_schema, sort_keys, asc, stream)
    /\ plan_schema' = logical_schema
    /\ child' = stream
    /\ pulled' = 0
    /\ UNCHANGED <<datasource, logical_schema, call>>

\* Dataframe::aggregate, Aggregate::new, Aggregate::to_physical_plan and
\* the execution of the plan
HashAggregate(group_by, aggregates) ==
    /\ CanPlan
    /\ \A g \in 1..Len(group_by) :
          to_field(group_by[g], logical_schema) # <<>>
          /\ to_physical_ok(group_by[g], logical_schema)
    /\ \A a \in 1..Len(aggregates) :
          aggregate_to_field(aggregates[a], logical_schema) # <<>>
          /\ to_physical_ok(aggregates[a].input, logical_schema)
    /\ LET schema ==
               [g \in 1..Len(group_by) |-> to_field(group_by[g], logical_schema)[1]]
               \o [a \in 1..Len(aggregates) |->
                      aggregate_to_field(aggregates[a], logical_schema)[1]]
           group_expr == [g \in 1..Len(group_by) |->
                             to_physical_expr(group_by[g], logical_schema)]
           aggr_expr == [a \in 1..Len(aggregates) |->
                            to_physical_aggregate(aggregates[a], logical_schema)]
       IN /\ plan' = Append(plan, [op |-> "HashAggregate", group_expr |-> group_expr,
                                   aggr_expr |-> aggr_expr])
          /\ logical_schema' = schema
          /\ plan_schema' = schema
          /\ LET r == aggregate_batches(<<>>, group_expr, aggr_expr, stream.batches)
             IN \E order \in IterationOrders(Len(r.map)) :
                   stream' = aggregate_emit(schema, r, stream.end, order)
    /\ child' = stream
    /\ pulled' = 0
    /\ UNCHANGED <<datasource, call>>

Next ==
    \/ \E projection \in Projections : Scan(projection)
    \/ \E exprs \in ProjectionLists : Projection(exprs)
    \/ \E pred \in Predicates : Filter(pred)
    \/ \E limit \in 0..MaxLimit : Limit(limit)
    \/ \E keys \in SortKeyLists : \E asc \in [1..Len(keys) -> BOOLEAN] : Sort(keys, asc)
    \/ \E g \in Aggregations : HashAggregate(g.group_by, g.aggregates)

Spec == Init /\ [][Next]_vars

(* ---- one accumulator, fed a sequence of values ---- *)
AccumulatorKinds == {"Sum", "Count", "Min", "Max", "Avg"}

NumberInputs == {Null} \cup { Number(n) : n \in -MaxNumber..MaxNumber }
DateInputs == {Null} \cup { Date(n) : n \in 0..MaxNumber }

SeqsUpTo(S, n) == UNION { [1..k -> S] : k \in 0..n }

AccumulatorInit ==
    /\ NoPlan
    /\ \E values \in SeqsUpTo(NumberInputs, MaxInputs)
                          \cup SeqsUpTo(DateInputs, MaxInputs) :
           call = [fn |-> "none", args |-> values, out |-> <<>>]

\* accumulate called with the values from the i-th on, until one fails
RECURSIVE accumulate_from(_, _, _)
accumulate_from(acc, values, i) ==
    IF i > Len(values) THEN [acc |-> acc, res |-> "ok"]
    ELSE LET r == accumulate(acc, values[i])
         IN IF r.res # "ok" THEN r ELSE accumulate_from(r.acc, values, i + 1)

\* a new accumulator of the kind, accumulate for each value, get_value:
\* out is <<value>>, or <<>> when an accumulate returned Err
Accumulate(kind) ==
    /\ call.fn = "none"
    /\ LET r == accumulate_from(Accumulator(kind), call.args, 1)
       IN call' = [call EXCEPT !.fn = kind,
                               !.out = CASE r.res = "ok" -> <<get_value(r.acc)>>
                                         [] r.res = "error" -> <<>>
                                         [] r.res = "panic" -> <<Panicked>>]
    /\ UNCHANGED <<datasource, plan, logical_schema, plan_schema, child, stream,
                   pulled>>

AccumulatorNext == \E kind \in AccumulatorKinds : Accumulate(kind)

AccumulatorSpec == AccumulatorInit /\ [][AccumulatorNext]_vars

(* ---- Schema::select, applied to a schema and a list of names ---- *)
FieldNames == {"a", "b", "c"}

\* the schemas whose fields have different names
Schemas ==
    { sch \in SeqsUpTo({ Field(n, IF n = "b" THEN "Boolean" ELSE "Number") :
                            n \in FieldNames }, Cardinality(FieldNames)) :
        \A i, j \in 1..Len(sch) : sch[i].name = sch[j].name => i = j }

SchemaInit ==
    /\ NoPlan
    /\ \E sch \in Schemas, names \in SeqsUpTo(FieldNames \cup {"zz"}, MaxNames) :
           call = [fn |-> "none", args |-> <<sch, names>>, out |-> <<>>]

Select ==
    /\ call.fn = "none"
    /\ call' = [call EXCEPT !.fn = "select",
                            !.out = select(call.args[1], call.args[2])]
    /\ UNCHANGED <<datasource, plan, logical_schema, plan_schema, child, stream,
                   pulled>>

SchemaNext == Select

SchemaSpec == SchemaInit /\ [][SchemaNext]_vars

(* ---- the SQL front end (sql/parser.rs) ---- *)
\* A SELECT statement is the record of its clauses as sqlparser returns
\* them: projection is the select list, whose items are expressions or the
\* wildcard; selection and having are <<>> or <<expr>>; limit is <<>> or
\* <<n>>.  An aggregate function is an AggregateExpr whose input may be the
\* wildcard, as in COUNT(*).
Wildcard == [e |-> "Wildcard"]

\* parse_expr and parse_aggregate_function return Ok: a wildcard argument
\* of a function is an Err
RECURSIVE parse_expr_ok(_)
parse_expr_ok(expr) ==
    IF expr.e = "BinaryExpr" THEN parse_expr_ok(expr.l) /\ parse_expr_ok(expr.r)
    ELSE IF expr.e = "AggregateExpr"
    THEN expr.input.e # "Wildcard" /\ parse_expr_ok(expr.input)
    ELSE TRUE

\* LogicalExprs::as_aggregate: the aggregates embedded in the expression,
\* in the order they occur
RECURSIVE as_aggregate(_)
as_aggregate(expr) ==
    IF expr.e = "AggregateExpr" THEN <<expr>>
    ELSE IF expr.e = "BinaryExpr" THEN as_aggregate(expr.l) \o as_aggregate(expr.r)
    ELSE <<>>

\* aggregates.contains(expr), and aggregates.iter().position(|e| e == expr)
\* counted from 0
Contains(seq, x) == \E i \in 1..Len(seq) : seq[i] = x

Position(seq, x) == (CHOOSE i \in 1..Len(seq) :
                        seq[i] = x /\ \A j \in 1..(i - 1) : seq[j] # x) - 1

\* parse_projection: the wildcard items are filtered out of the select list
parse_projection(items) == SelectSeq(items, LAMBDA item : item.e # "Wildcard")

\* projections.iter().flat_map(|expr| expr.as_aggregate())
RECURSIVE flat_as_aggregate(_)
flat_as_aggregate(exprs) ==
    IF exprs = <<>> THEN <<>>
    ELSE as_aggregate(Head(exprs)) \o flat_as_aggregate(Tail(exprs))

RECURSIVE retrieve_aggregate_col_idx(_, _, _)
retrieve_aggregate_col_idx(group_by_size, expr, aggregates) ==
    IF expr.e = "AggregateExpr"
    THEN ColumnIndex(Position(aggregates, expr) + group_by_size)
    ELSE IF expr.e = "BinaryExpr"
    THEN BinaryExpr(retrieve_aggregate_col_idx(group_by_size, expr.l, aggregates),
                    expr.op,
                    retrieve_aggregate_col_idx(group_by_size, expr.r, aggregates))
    ELSE expr

\* Projection::new and Aggregate::new return Ok: every expression has a
\* field in the schema of the input
Projection_new_ok(exprs, schema) ==
    \A k \in 1..Len(exprs) : to_field(exprs[k], schema) # <<>>

Aggregate_new_ok(group_expr, aggregate_expr, schema) ==
    /\ \A g \in 1..Len(group_expr) : to_field(group_expr[g], schema) # <<>>
    /\ \A a \in 1..Len(aggregate_expr) :
          aggregate_to_field(aggregate_expr[a], schema) # <<>>

\* a node of the logical plan; a Dataframe is the sequence of its nodes
\* from the Scan to the root
Node(op, exprs, aggregates, limit) ==
    [op |-> op, exprs |-> exprs, aggregates |-> aggregates, limit |-> limit]

DfErr == [res |-> "error", plan |-> <<>>]
DfOk(df) == [res |-> "ok", plan |-> df]

\* the WHERE clause of create_df with its test for aggregates left out
where_check_Skipped(stmt) == TRUE

\* the WHERE clause of create_df: an aggregate in the predicate is an Err
where_check(stmt) ==
    stmt.selection = <<>> \/ as_aggregate(stmt.selection[1]) = <<>>

\* parse_order_by: the keys are parsed in turn by try_for_each, which stops
\* at the first Err; its result is dropped and the keys parsed so far are
\* returned in an Ok
RECURSIVE parse_order_by(_)
parse_order_by(exprs) ==
    IF exprs = <<>> THEN <<>>
    ELSE IF ~parse_expr_ok(Head(exprs)) THEN <<>>
    ELSE <<Head(exprs)>> \o parse_order_by(Tail(exprs))

\* every parse_expr of create_df returns Ok (parse_order_by drops its Err)
clauses_parse(stmt) ==
    /\ \A i \in 1..Len(stmt.selection) : parse_expr_ok(stmt.selection[i])
    /\ \A i \in 1..Len(stmt.projection) :
          stmt.projection[i].e = "Wildcard" \/ parse_expr_ok(stmt.projection[i])
    /\ \A i \in 1..Len(stmt.having) : parse_expr_ok(stmt.having[i])
    /\ \A i \in 1..Len(stmt.group_by) : parse_expr_ok(stmt.group_by[i])

\* create_df over the Dataframe of a Scan whose schema is schema
create_df(stmt, schema) ==
    LET projections == parse_projection(stmt.projection)
        from_select == flat_as_aggregate(projections)
        from_having ==
            IF stmt.having = <<>> THEN <<>>
            ELSE SelectSeq(as_aggregate(stmt.having[1]),
                           LAMBDA x : ~Contains(from_select, x))
        aggregates == from_select \o from_having
        group_by_exprs == stmt.group_by
        group_by_size == Len(group_by_exprs)
        filtered ==
            <<Node("Scan", <<>>, <<>>, 0)>>
                \o IF stmt.selection = <<>> THEN <<>>
                   ELSE <<Node("Filter", stmt.selection, <<>>, 0)>>
        sorted(df) ==
            df \o IF stmt.order_by = <<>> THEN <<>>
                  ELSE <<Node("Sort", parse_order_by(stmt.order_by), <<>>, 0)>>
        limited(df) ==
            df \o IF stmt.limit = <<>> THEN <<>>
                  ELSE <<Node("Limit", <<>>, <<>>, stmt.limit[1])>>
    IN IF ~clauses_parse(stmt) \/ ~where_check(stmt) THEN DfErr
       ELSE IF group_by_exprs = <<>> /\ aggregates = <<>> THEN
           IF projections = <<>> THEN DfOk(limited(sorted(filtered)))
           ELSE IF ~Projection_new_ok(projections, schema) THEN DfErr
           ELSE DfOk(limited(sorted(filtered)
                                \o <<Node("Projection", projections, <<>>, 0)>>))
       ELSE IF projections = <<>> THEN DfErr
       ELSE IF ~Aggregate_new_ok(group_by_exprs, aggregates, schema) THEN DfErr
       ELSE LET aggr_schema ==
                    [g \in 1..group_by_size |-> to_field(group_by_exprs[g], schema)[1]]
                    \o [a \in 1..Len(aggregates) |->
                           aggregate_to_field(aggregates[a], schema)[1]]
                aggr_projections ==
                    [k \in 1..Len(projections) |->
                        retrieve_aggregate_col_idx(group_by_size, projections[k],
                                                   aggregates)]
                aggregated ==
                    filtered \o <<Node("Aggregate", group_by_exprs, aggregates, 0)>>
                had ==
                    aggregated
                        \o IF stmt.having = <<>> THEN <<>>
                           ELSE <<Node("Filter",
                                       <<retrieve_aggregate_col_idx(group_by_size,
                                             stmt.having[1], aggregates)>>,
                                       <<>>, 0)>>
            IN IF ~Projection_new_ok(aggr_projections, aggr_schema) THEN DfErr
               ELSE DfOk(limited(sorted(had)
                                    \o <<Node("Projection", aggr_projections,
                                              <<>>, 0)>>))

\* the statements
SelectLists ==
    { <<Wildcard>>,
      <<Wildcard, Column("a")>>,
      <<Wildcard, AggregateExpr("Count", Column("a"))>>,
      <<Column("a")>>,
      <<Column("b"), Column("a")>>,
      <<AggregateExpr("Count", Column("a"))>>,
      <<Column("a"), AggregateExpr("Sum", Column("a"))>>,
      <<BinaryExpr(AggregateExpr("Max", Column("a")), "add", Literal(Number(1)))>>,
      <<AggregateExpr("Count", Column("a")), AggregateExpr("Count", Column("a"))>> }

Wheres ==
    { <<>>,
      <<Column("b")>>,
      <<BinaryExpr(AggregateExpr("Count", Column("a")), "gt", Literal(Number(0)))>>,
      <<BinaryExpr(Column("b"), "and",
            BinaryExpr(BinaryExpr(AggregateExpr("Sum", Column("a")), "add",
                                  Literal(Number(1))),
                       "gt", Literal(Number(0))))>>,
      <<BinaryExpr(AggregateExpr("Count", Wildcard), "gt", Literal(Number(2)))>> }

GroupBys == { <<>>, <<Column("a")>>, <<Column("b")>> }

Havings ==
    { <<>>,
      <<Column("b")>>,
      <<BinaryExpr(AggregateExpr("Count", Column("a")), "gt", Literal(Number(0)))>>,
      <<BinaryExpr(BinaryExpr(AggregateExpr("Sum", Column("a")), "gt",
                              Literal(Number(0))),
                   "and",
                   BinaryExpr(AggregateExpr("Sum", Column("a")), "lt",
                              Literal(Number(2))))>> }

OrderBys ==
    { <<>>,
      <<Column("a")>>,
      <<AggregateExpr("Count", Column("a"))>>,
      <<AggregateExpr("Count", Wildcard)>>,
      <<Column("a"), AggregateExpr("Count", Wildcard), Column("b")>> }

Limits == {<<>>} \cup { <<n>> : n \in 0..MaxLimit }

Statements ==
    [projection : SelectLists, selection : Wheres, group_by : GroupBys,
     having : Havings, order_by : OrderBys, limit : Limits]

SqlInit ==
    /\ NoPlan
    /\ \E stmt \in Statements :
           call = [fn |-> "none", args |-> <<stmt>>, out |-> <<>>]

\* parse: create_df for the statement, over the Dataframe of the table
CreateDf ==
    /\ call.fn = "none"
    /\ call' = [call EXCEPT !.fn = "create_df",
                            !.out = create_df(call.args[1], datasource.schema)]
    /\ UNCHANGED <<datasource, plan, logical_schema, plan_schema, child, stream,
                   pulled>>

SqlNext == CreateDf

SqlSpec == SqlInit /\ [][SqlNext]_vars

(* ---- plans whose expressions divide ---- *)
MathProjectionLists ==
    { <<BinaryExpr(Literal(Number(1)), "div", Column("a"))>>,
      <<BinaryExpr(Column("a"), "mod", Column("a")), Column("b")>>,
      <<BinaryExpr(Column("a"), "add", Literal(Number(1)))>> }

MathPredicates ==
    { BinaryExpr(BinaryExpr(Literal(Number(2)), "mod", Column("a")), "eq",
                 Literal(Number(0))),
      BinaryExpr(BinaryExpr(Column("a"), "div", Literal(Number(1))), "gte",
                 Literal(Number(0))) }

MathNext ==
    \/ \E projection \in Projections : Scan(projection)
    \/ \E exprs \in MathProjectionLists : Projection(exprs)
    \/ \E pred \in MathPredicates : Filter(pred)

MathSpec == Init /\ [][MathNext]_vars

(* ---- plans that filter by predicates that are not Boolean ---- *)
NumberPredicates ==
    { Column("a"),
      BinaryExpr(Column("a"), "add", Literal(Number(1))),
      BinaryExpr(Column("a"), "lt", Literal(Number(1))) }

TypeNext ==
    \/ \E projection \in Projections : Scan(projection)
    \/ \E pred \in NumberPredicates : Filter(pred)

TypeSpec == Init /\ [][TypeNext]_vars

(* ---- one accumulator, fed values of any type ---- *)
MixedInputs == {Null, Number(1), Boolean(TRUE), Text(0)}

MixedInit ==
    /\ NoPlan
    /\ \E values \in SeqsUpTo(MixedInputs, MaxInputs) :
           call = [fn |-> "none", args |-> values, out |-> <<>>]

MixedSpec == MixedInit /\ [][AccumulatorNext]_vars

(* ---- CSV files (datasources/datasink.rs, datasources/datasource.rs) ---- *)
\* The values of datatypes/types.rs; a Float holds tenths, a Text its string
Integer(n) == [t |-> "Integer", v |-> n]
Float(tenths) == [t |-> "Float", v |-> tenths]
TextOf(str) == [t |-> "Text", s |-> str]

\* val.parse::<i32>(), val.parse::<f32>() and val.parse::<bool>() on the
\* strings of the model: <<x>> for Ok(x), <<>> for Err
parse_i32(val) ==
    CASE val = "-1" -> <<-1>>
      [] val = "0" -> <<0>>
      [] val = "1" -> <<1>>
      [] OTHER -> <<>>

parse_f32(val) ==
    IF parse_i32(val) # <<>> THEN <<10 * parse_i32(val)[1]>>
    ELSE IF val = "1.5" THEN <<15>>
    ELSE <<>>

parse_bool(val) ==
    CASE val = "true" -> <<TRUE>>
      [] val = "false" -> <<FALSE>>
      [] OTHER -> <<>>

\* Display for Value: an f32 without a fraction is written without a point
to_string(value) ==
    CASE value.t = "Integer" ->
             (CASE value.v = -1 -> "-1" [] value.v = 0 -> "0" [] value.v = 1 -> "1")
      [] value.t = "Float" ->
             (CASE value.v = -10 -> "-1" [] value.v = 0 -> "0"
                [] value.v = 10 -> "1" [] value.v = 15 -> "1.5")
      [] value.t = "Boolean" -> (IF value.v = 1 THEN "true" ELSE "false")
      [] value.t = "Text" -> value.s
      [] value.t = "Null" -> ""

get_type_from_string_val(val) ==
    IF parse_i32(val) # <<>> THEN "Integer"
    ELSE IF parse_f32(val) # <<>> THEN "Float"
    ELSE IF parse_bool(val) # <<>> THEN "Boolean"
    ELSE "Text"

\* Value::get_value_from_string_val: the parse is unwrapped
get_value_from_string_val(val, datatype) ==
    IF val = "" THEN Null
    ELSE CASE datatype = "Integer" ->
                  (IF parse_i32(val) = <<>> THEN Panicked ELSE Integer(parse_i32(val)[1]))
           [] datatype = "Float" ->
                  (IF parse_f32(val) = <<>> THEN Panicked ELSE Float(parse_f32(val)[1]))
           [] datatype = "Boolean" ->
                  (IF parse_bool(val) = <<>> THEN Panicked
                   ELSE Boolean(parse_bool(val)[1]))
           [] datatype = "Text" -> TextOf(val)

\* A file is the header and the records the csv reader and writer exchange
\* with the program; every record has one cell per header cell.
CsvFile(header, records) == [header |-> header, records |-> records]

\* the loop of get_csv_schema over the records from the i-th on: a cell
\* that is not empty sets the datatype of its column unless that is Text
\* already; the loop breaks after the record numbered VECTOR_SIZE
RECURSIVE infer_datatypes(_, _, _)
infer_datatypes(datatypes, records, i) ==
    IF i > Len(records) \/ i > VECTOR_SIZE + 1 THEN datatypes
    ELSE infer_datatypes(
             [c \in 1..Len(datatypes) |->
                 IF records[i][c] # "" /\ datatypes[c] # <<"Text">>
                 THEN <<get_type_from_string_val(records[i][c])>>
                 ELSE datatypes[c]],
             records, i + 1)

\* CSVDatasource::get_csv_schema: a column without a datatype keeps
\* DataType::default()
get_csv_schema(file) ==
    LET datatypes == infer_datatypes([c \in 1..Len(file.header) |-> <<>>],
                                     file.records, 1)
    IN [c \in 1..Len(file.header) |->
           Field(file.header[c],
                 IF datatypes[c] = <<>> THEN "Text" ELSE datatypes[c][1])]

\* CSVDatasource::load_csv_data: <<batches>>, or <<>> for a panic
load_csv_data(file, schema) ==
    LET cols == [c \in 1..Len(schema) |->
                    [r \in 1..Len(file.records) |->
                        get_value_from_string_val(file.records[r][c],
                                                  schema[c].datatype)]]
    IN IF \E c \in 1..Len(cols) : IsPanic(cols[c]) THEN <<>>
       ELSE to_record_batch(cols, schema)

\* CSVDatasource::from_csv of a file that can be read
from_csv(file) ==
    LET schema == get_csv_schema(file)
        data == load_csv_data(file, schema)
    IN IF data = <<>> THEN [res |-> "panic", schema |-> schema, data |-> <<>>]
       ELSE [res |-> "ok", schema |-> schema, data |-> data[1]]

\* what can go wrong with the target file of to_csv
Faults == {"none", "open", "header", "row", "flush"}

\* Datasink::to_csv, the file system failing as fault says: the result and
\* the file that is left (<<>> for a file that is absent or incomplete)
to_csv(ds, fault) ==
    LET rows == [i \in 1..Len(ds.data[1]) |->
                    [c \in 1..Len(ds.data) |-> to_string(ds.data[c][i])]]
        header == [c \in 1..Len(ds.schema) |-> ds.schema[c].name]
    IN CASE fault \in {"open", "header", "flush"} -> [res |-> "error", file |-> <<>>]
         [] fault = "row" /\ rows # <<>> -> [res |-> "panic", file |-> <<>>]
         [] OTHER -> [res |-> "ok", file |-> <<CsvFile(header, rows)>>]

\* execute_copy once the plan has yielded the data of ds
execute_copy(ds, fault) ==
    LET written == to_csv(ds, fault)
    IN IF written.res = "panic" THEN written
       ELSE [res |-> "ok", file |-> written.file]

\* the tables that are written: one column a of one datatype
MaxCells == 3

ValuesOf(datatype) ==
    {Null} \cup
    CASE datatype = "Integer" -> {Integer(0), Integer(1)}
      [] datatype = "Float" -> {Float(15), Float(10)}
      [] datatype = "Boolean" -> {Boolean(TRUE), Boolean(FALSE)}
      [] datatype = "Text" -> {TextOf("x"), TextOf("1"), TextOf("true")}

Tables ==
    UNION { { [schema |-> <<Field("a", datatype)>>, data |-> <<col>>] :
                col \in SeqsUpTo(ValuesOf(datatype), MaxCells) } :
            datatype \in {"Integer", "Float", "Boolean", "Text"} }

CopyInit ==
    /\ NoPlan
    /\ \E ds \in Tables, fault \in Faults :
           call = [fn |-> "none", args |-> <<ds, fault>>, out |-> <<>>]

\* COPY (SELECT ...) TO path
ExecuteCopy ==
    /\ call.fn = "none"
    /\ call' = [call EXCEPT !.fn = "execute_copy",
                            !.out = execute_copy(call.args[1], call.args[2])]
    /\ UNCHANGED <<datasource, plan, logical_schema, plan_schema, child, stream,
                   pulled>>

\* the file that was written is loaded back
FromCsv ==
    /\ call.fn = "execute_copy"
    /\ call.out.file # <<>>
    /\ call' = [call EXCEPT !.fn = "from_csv", !.out = from_csv(call.out.file[1])]
    /\ UNCHANGED <<datasource, plan, logical_schema, plan_schema, child, stream,
                   pulled>>

CopyNext == ExecuteCopy \/ FromCsv

CopySpec == CopyInit /\ [][CopyNext]_vars

\* the files whose schema is inferred: one column of cells
Cells == {"", "0", "1", "1.5", "true", "false", "x"}

CsvFiles == { CsvFile(<<"a">>, [r \in 1..Len(col) |-> <<col[r]>>]) :
                 col \in SeqsUpTo(Cells, MaxCells) }

InferInit ==
    /\ NoPlan
    /\ \E file \in CsvFiles :
           call = [fn |-> "none", args |-> <<file>>, out |-> <<>>]

\* CSVDatasource::from_csv
LoadCsv ==
    /\ call.fn = "none"
    /\ call' = [call EXCEPT !.fn = "from_csv", !.out = from_csv(call.args[1])]
    /\ UNCHANGED <<datasource, plan, logical_schema, plan_schema, child, stream,
                   pulled>>

InferNext == LoadCsv

InferSpec == InferInit /\ [][InferNext]_vars

(* ---- plans that sort by keys that are not all columns ---- *)
ExprSortKeyLists ==
    { <<Column("a"), Column("b")>>,
      <<Literal(Number(0)), Column("a")>>,
      <<BinaryExpr(Column("a"), "add", Literal(Number(1)))>> }

SortNext ==
    \/ \E projection \in Projections : Scan(projection)
    \/ \E keys \in ExprSortKeyLists : \E asc \in [1..Len(keys) -> BOOLEAN] :
           Sort(keys, asc)

SortSpec == Init /\ [][SortNext]_vars

(* ---- the operations of Value, applied to a pair of values ---- *)

Values ==
    {Null, Boolean(TRUE), Boolean(FALSE), Text(0), Text(1)}
        \cup { Number(n) : n \in -MaxNumber..MaxNumber }

ValueInit ==
    /\ NoPlan
    /\ \E l \in Values, r \in Values :
           call = [fn |-> "none", args |-> <<l, r>>, out |-> <<>>]

\* l.op(r) for the operation named op
ValueOp(op) ==
    /\ call.fn = "none"
    /\ LET l == call.args[1]
           r == call.args[2]
       IN call' = [call EXCEPT !.fn = op,
                               !.out = IF op \in ComparisonOps
                                       THEN <<evaluate_row(op, l, r)>>
                                       ELSE <<Math_evaluate_row(op, l, r)>>]
    /\ UNCHANGED <<datasource, plan, logical_schema, plan_schema, child, stream,
                   pulled>>

ValueNext == \E op \in ComparisonOps \cup ArithmeticOps : ValueOp(op)

ValueSpec == ValueInit /\ [][ValueNext]_vars

(***************************************************************************)
(* Properties                                                              *)
(***************************************************************************)
TopIs(op) == plan # <<>> /\ Top.op = op

InputRows == RowsOfBatches(child.batches)

OutputRows == RowsOfBatches(stream.batches)

Min2(a, b) == IF a < b THEN a ELSE b

\* C1: every batch a plan emits has the plan's schema, and all its columns
\* have row_count() values.
C1_BatchesCarryPlanSchema ==
    plan # <<>> =>
        \A n \in 1..Len(stream.batches) :
            LET B == stream.batches[n]
            IN /\ B.schema = plan_schema
               /\ \A c \in 1..Len(B.columns) : Len(B.columns[c]) = row_count(B)

\* C2: for n > 0 the rows Limit(n) emits, taken over all its batches, are
\* the first min(n, input rows) rows of its input, in input order.
C2_LimitEmitsFirstRows ==
    (TopIs("Limit") /\ Top.limit > 0 /\ child.end = "ok") =>
        /\ stream.end = "ok"
        /\ OutputRows = SubSeq(InputRows, 1, Min2(Top.limit, Len(InputRows)))

\* a Limit that cuts inside the second input batch
C2_Witness ==
    /\ TopIs("Limit") /\ Top.limit > 0 /\ child.end = "ok"
    /\ Top.limit < Len(InputRows)
    /\ Len(child.batches) = 2
    /\ row_count(child.batches[1]) < Top.limit

\* the number of leading input batches that together hold at least n rows,
\* all of them if the input has fewer rows
RECURSIVE BatchesNeeded(_, _)
BatchesNeeded(batches, n) ==
    IF n <= 0 \/ batches = <<>> THEN 0
    ELSE 1 + BatchesNeeded(Tail(batches), n - row_count(Head(batches)))

\* C3: Limit(n) takes from its child only the batches it needs to emit n
\* rows; once n rows are out it asks for no further batch.
C3_LimitStopsPulling ==
    (TopIs("Limit") /\ Top.limit > 0 /\ child.end = "ok") =>
        pulled = BatchesNeeded(child.batches, Top.limit)

\* C4: Limit(0) emits exactly one batch, which has the plan's schema and one
\* empty column per field; no input row is emitted.
C4_LimitZeroEmitsOneEmptyBatch ==
    (TopIs("Limit") /\ Top.limit = 0) =>
        /\ Len(stream.batches) = 1
        /\ stream.batches[1].schema = plan_schema
        /\ Len(stream.batches[1].columns) = Len(plan_schema)
        /\ \A c \in 1..Len(plan_schema) : stream.batches[1].columns[c] = <<>>
        /\ OutputRows = <<>>

\* Limit(0) over a child that has rows to give
C4_Witness ==
    /\ TopIs("Limit") /\ Top.limit = 0
    /\ InputRows # <<>>
    /\ stream.batches # <<>>

\* the j-th smallest element of a set of numbers
Nth(S, j) == CHOOSE x \in S : Cardinality({y \in S : y < x}) = j - 1

\* C5: Filter emits one batch per input batch, holding exactly the rows
\* whose predicate value is Boolean(true), in their input order and the same
\* rows in every column.
C5_FilterKeepsTrueRows ==
    (TopIs("Filter") /\ child.end = "ok" /\ stream.end = "ok") =>
        /\ Len(stream.batches) = Len(child.batches)
        /\ \A n \in 1..Len(child.batches) :
              LET pred == evaluate(Top.expr, child.batches[n])
                  rows == RowsOf(child.batches[n])
                  kept == { j \in 1..Len(rows) : pred[j] = Boolean(TRUE) }
                  out == stream.batches[n]
              IN /\ \A c \in 1..Len(out.columns) :
                       Len(out.columns[c]) = Cardinality(kept)
                 /\ Len(out.columns) = Len(child.batches[n].columns)
                 /\ RowsOf(out) = [k \in 1..Cardinality(kept) |-> rows[Nth(kept, k)]]
                 /\ Len(RowsOf(out)) <= Len(rows)

\* a Filter over a batch in which the predicate is Null for one row and
\* true for another
C5_Witness ==
    /\ TopIs("Filter") /\ child.end = "ok" /\ stream.end = "ok"
    /\ \E n \in 1..Len(child.batches) :
          LET pred == evaluate(Top.expr, child.batches[n])
          IN /\ \E j \in 1..Len(pred) : pred[j] = Null
             /\ \E j \in 1..Len(pred) : pred[j] = Boolean(TRUE)
             /\ row_count(stream.batches[n]) = 1

(* ---- Sort ---- *)
\* the values of a row at the sort keys of the plan's Sort
SortKey(row) == [k \in 1..Len(Top.sort_keys) |-> row[Top.sort_keys[k].i + 1]]

SameSortKey(r1, r2) ==
    \A k \in 1..Len(Top.sort_keys) : ValueEq(SortKey(r1)[k], SortKey(r2)[k])

\* r1 may stand before r2: at the first key where they differ, r1 comes
\* first in that key's direction
MayPrecede(r1, r2) ==
    LET differ == { k \in 1..Len(Top.sort_keys) :
                       ~ValueEq(SortKey(r1)[k], SortKey(r2)[k]) }
    IN \/ differ = {}
       \/ LET f == Nth(differ, 1)
          IN IF Top.asc[f] THEN ValueLe(SortKey(r1)[f], SortKey(r2)[f])
             ELSE ValueLe(SortKey(r2)[f], SortKey(r1)[f])

\* C6: the rows Sort emits are in the lexicographic order of the keys, each
\* key in the direction of its own asc flag.
C6_SortIsLexicographic ==
    (TopIs("Sort") /\ child.end = "ok" /\ stream.end = "ok") =>
        \A j \in 1..(Len(OutputRows) - 1) :
            MayPrecede(OutputRows[j], OutputRows[j + 1])

\* the rows of a sequence that have the sort key of row r, in their order
WithKeyOf(rows, r) == SelectSeq(rows, LAMBDA x : SameSortKey(x, r))

\* C7: Sort is stable: rows that are equal on every sort key are emitted in
\* the order in which they came in.
C7_SortIsStable ==
    (TopIs("Sort") /\ child.end = "ok" /\ stream.end = "ok") =>
        \A j \in 1..Len(InputRows) :
            WithKeyOf(OutputRows, InputRows[j]) = WithKeyOf(InputRows, InputRows[j])

\* how often a row occurs in a sequence of rows
Occurrences(rows, r) == Cardinality({ j \in 1..Len(rows) : rows[j] = r })

\* C8: Sort finishes whatever the number of input rows; every batch it
\* emits has at most VECTOR_SIZE rows, all but the last exactly VECTOR_SIZE,
\* and the emitted rows are a permutation of the input rows.
C8_SortFinishes ==
    (TopIs("Sort") /\ child.end = "ok") =>
        /\ stream.end = "ok"
        /\ \A n \in 1..Len(stream.batches) :
              /\ row_count(stream.batches[n]) <= VECTOR_SIZE
              /\ n < Len(stream.batches) =>
                     row_count(stream.batches[n]) = VECTOR_SIZE
        /\ Len(OutputRows) = Len(InputRows)
        /\ \A j \in 1..Len(InputRows) :
              Occurrences(OutputRows, InputRows[j]) = Occurrences(InputRows, InputRows[j])

\* C9: a Sort whose asc flags are all true, run again on its own output,
\* emits the same row sequence.
C9_AscendingSortIsIdempotent ==
    (TopIs("Sort") /\ (\A k \in 1..Len(Top.asc) : Top.asc[k]) /\ stream.end = "ok") =>
        LET again == SortExec_execute(plan_schema, Top.sort_keys, Top.asc, stream)
        IN /\ again.end = "ok"
           /\ RowsOfBatches(again.batches) = OutputRows

\* an all-ascending Sort that had to move rows, with two different rows
\* that tie on the first key
C9_Witness ==
    /\ TopIs("Sort") /\ (\A k \in 1..Len(Top.asc) : Top.asc[k]) /\ stream.end = "ok"
    /\ OutputRows # InputRows
    /\ \E i, j \in 1..Len(OutputRows) :
          /\ OutputRows[i] # OutputRows[j]
          /\ ValueEq(SortKey(OutputRows[i])[1], SortKey(OutputRows[j])[1])

(* ---- HashAggregate ---- *)
\* for every row of the batches, in order, the values of the expressions
RECURSIVE EvaluatedRows(_, _)
EvaluatedRows(batches, exprs) ==
    IF batches = <<>> THEN <<>>
    ELSE LET cols == [e \in 1..Len(exprs) |-> evaluate(exprs[e], Head(batches))]
         IN [j \in 1..row_count(Head(batches)) |->
                [e \in 1..Len(exprs) |-> cols[e][j]]]
            \o EvaluatedRows(Tail(batches), exprs)

\* an accumulator after it has been fed the values, in order
RECURSIVE Fed(_, _)
Fed(acc, values) ==
    IF values = <<>> THEN acc
    ELSE Fed(accumulate(acc, Head(values)).acc, Tail(values))

\* the row HashAggregate owes for the group key: the key's values, then the
\* value of every accumulator fed the rows of the group
GroupRow(key, keys, inputs) ==
    LET group == { j \in 1..Len(keys) : keys[j] = key }
    IN key \o [a \in 1..Len(Top.aggr_expr) |->
                  get_value(Fed(Accumulator(Top.aggr_expr[a].kind),
                                [k \in 1..Cardinality(group) |->
                                    inputs[Nth(group, k)][a]]))]

\* C10: HashAggregate emits one row per distinct group key of its input,
\* Null keys included: the key's values, then the values of the accumulators
\* fed exactly the rows of that group.
C10_AggregateEmitsOneRowPerGroup ==
    (TopIs("HashAggregate") /\ child.end = "ok" /\ stream.end # "error") =>
        LET keys == EvaluatedRows(child.batches, Top.group_expr)
            inputs == EvaluatedRows(child.batches,
                          [a \in 1..Len(Top.aggr_expr) |-> Top.aggr_expr[a].input_expr])
            distinct == { keys[j] : j \in 1..Len(keys) }
        IN /\ stream.end = "ok"
           /\ Len(OutputRows) = Cardinality(distinct)
           /\ \A key \in distinct :
                 \E n \in 1..Len(OutputRows) :
                     OutputRows[n] = GroupRow(key, keys, inputs)

(* ---- errors ---- *)
\* an accumulator of the plan's HashAggregate rejects a value of the input:
\* Sum takes Number and Null only
AccumulatorRejects ==
    \E a \in 1..Len(Top.aggr_expr) :
        /\ Top.aggr_expr[a].kind = "Sum"
        /\ \E row \in { r : r \in
                 { EvaluatedRows(child.batches, <<Top.aggr_expr[a].input_expr>>)[j] :
                     j \in 1..Len(EvaluatedRows(child.batches,
                                      <<Top.aggr_expr[a].input_expr>>)) } } :
              row[1].t \notin {"Number", "Null"}

\* the stream of the plan yields an Err element and ends; Sort and
\* HashAggregate have emitted nothing before it
ReportsError ==
    /\ stream.end = "error"
    /\ Top.op \in {"Sort", "HashAggregate"} => stream.batches = <<>>

\* C11 as stated: every operator whose child's stream yields an Err element
\* yields an Err itself, Sort and HashAggregate without any batch, and so
\* does a HashAggregate one of whose accumulators fails.
C11_ErrorsAlwaysPropagate ==
    /\ (plan # <<>> /\ Top.op # "Scan" /\ child.end = "error") => ReportsError
    /\ (TopIs("HashAggregate") /\ child.end = "ok" /\ AccumulatorRejects) =>
           ReportsError

\* C11, amended: the same, except that a Limit reports the Err of its child
\* only if it takes that element before it has emitted its n rows; Limit(0)
\* never does.
C11_ErrorsPropagateWhenReached ==
    /\ (plan # <<>> /\ Top.op # "Scan" /\ child.end = "error"
          /\ ~(Top.op = "Limit" /\ Len(InputRows) >= Top.limit)) => ReportsError
    /\ (TopIs("Limit") /\ child.end = "error" /\ Len(InputRows) >= Top.limit) =>
           stream.end = "ok"
    /\ (TopIs("HashAggregate") /\ child.end = "ok" /\ AccumulatorRejects) =>
           ReportsError

\* a Sort above a HashAggregate whose Sum was fed a Boolean
C11_Witness ==
    /\ Len(plan) >= 3
    /\ Top.op = "Sort"
    /\ plan[Len(plan) - 1].op = "HashAggregate"
    /\ child.end = "error"
    /\ stream = Stream(<<>>, "error")

(* ---- Null operands ---- *)
\* C12: with a Null operand on either side and any value on the other, each
\* comparison returns Boolean(false) and each arithmetic operation returns
\* Null; none fails.
C12_NullOperand ==
    (call.fn \in ComparisonOps \cup ArithmeticOps
       /\ (call.args[1] = Null \/ call.args[2] = Null)) =>
        call.out = IF call.fn \in ComparisonOps THEN <<Boolean(FALSE)>> ELSE <<Null>>

(* ---- division by zero ---- *)
\* evaluating the physical expression on the batch divides a Number by the
\* Number 0, in a div or a modulo
RECURSIVE DividesByZero(_, _)
DividesByZero(expr, batch) ==
    /\ expr.e \in {"BooleanExpr", "MathExpr"}
    /\ \/ DividesByZero(expr.l, batch)
       \/ DividesByZero(expr.r, batch)
       \/ /\ expr.e = "MathExpr"
          /\ expr.op \in {"div", "mod"}
          /\ LET l == evaluate(expr.l, batch)
                 r == evaluate(expr.r, batch)
             IN /\ ~IsPanic(l)
                /\ ~IsPanic(r)
                /\ \E j \in 1..row_count(batch) :
                      l[j].t = "Number" /\ r[j] = Number(0)

\* the expressions a Projection or a Filter evaluates
ExprsOf(node) == IF node.op = "Projection" THEN node.expr ELSE <<node.expr>>

\* C13: when a Projection or a Filter evaluates a div or a modulo of a
\* Number by zero, the stream of the query yields an error element.
C13_DivisionByZeroIsAnError ==
    (/\ plan # <<>>
     /\ Top.op \in {"Projection", "Filter"}
     /\ \E b \in 1..Len(child.batches), k \in 1..Len(ExprsOf(Top)) :
           column_count(child.batches[b]) > 0
           /\ DividesByZero(ExprsOf(Top)[k], child.batches[b]))
        => stream.end = "error"

(* ---- Min, Max, Avg ---- *)
\* the inputs that are not Null
NonNull(values) == SelectSeq(values, LAMBDA x : x.t # "Null")

AllOfType(values, t) == \A i \in 1..Len(values) : values[i].t \in {t, "Null"}

\* the smallest (largest) of a non-empty sequence of values of one type
Smallest(values) ==
    CHOOSE x \in { values[i] : i \in 1..Len(values) } :
        \A i \in 1..Len(values) : x.v <= values[i].v

Largest(values) ==
    CHOOSE x \in { values[i] : i \in 1..Len(values) } :
        \A i \in 1..Len(values) : x.v >= values[i].v

\* C14: fed Numbers and Nulls only, or Dates and Nulls only, Min returns the
\* smallest and Max the largest input that is not Null, and Null when there
\* is none, wherever the Nulls are.
C14_MinMaxSkipNulls ==
    (call.fn \in {"Min", "Max"}
       /\ (AllOfType(call.args, "Number") \/ AllOfType(call.args, "Date"))) =>
        call.out = IF NonNull(call.args) = <<>> THEN <<Null>>
                   ELSE IF call.fn = "Min" THEN <<Smallest(NonNull(call.args))>>
                   ELSE <<Largest(NonNull(call.args))>>

\* the same for Number inputs alone, which is what holds
C14_MinMaxOfNumbers ==
    (call.fn \in {"Min", "Max"} /\ AllOfType(call.args, "Number")) =>
        call.out = IF NonNull(call.args) = <<>> THEN <<Null>>
                   ELSE IF call.fn = "Min" THEN <<Smallest(NonNull(call.args))>>
                   ELSE <<Largest(NonNull(call.args))>>

RECURSIVE SumOf(_)
SumOf(values) == IF values = <<>> THEN 0 ELSE Head(values).v + SumOf(Tail(values))

\* C15: fed k Numbers of sum S and m Nulls, k + m >= 1, Avg returns what
\* Value::div gives for S and k + m: a Null adds 0 to the sum and 1 to the
\* divisor.  Fed nothing, Avg returns Null.
C15_AvgCountsNulls ==
    (call.fn = "Avg" /\ AllOfType(call.args, "Number")) =>
        call.out = IF call.args = <<>> THEN <<Null>>
                   ELSE <<div(Number(SumOf(NonNull(call.args))),
                              Number(Len(call.args)))>>

\* Avg of a Null and of Numbers whose sum is not 0
C15_Witness ==
    /\ call.fn = "Avg"
    /\ AllOfType(call.args, "Number")
    /\ \E i \in 1..Len(call.args) : call.args[i] = Null
    /\ SumOf(NonNull(call.args)) >= Len(call.args)
    /\ call.out # <<Number(0)>>
    /\ call.out # <<>>

(* ---- Schema::select ---- *)
\* C16: select(names) returns the fields of the schema whose name occurs in
\* names, in the order of the schema whatever the order of names, each once;
\* names the schema does not have are ignored.
C16_SelectKeepsSchemaOrder ==
    call.fn = "select" =>
        call.out = SelectSeq(call.args[1],
                       LAMBDA f : \E i \in 1..Len(call.args[2]) :
                                      call.args[2][i] = f.name)

\* what holds: the fields returned are those of the schema whose name occurs
\* in names, as a set
C16_SelectKeepsNamedFields ==
    call.fn = "select" =>
        { call.out[k] : k \in 1..Len(call.out) }
            = { f \in { call.args[1][i] : i \in 1..Len(call.args[1]) } :
                  \E i \in 1..Len(call.args[2]) : call.args[2][i] = f.name }

(* ---- Scan with a projection ---- *)
\* the batch holds the columns of the source batch src named in projection,
\* and no other
OnlyNamedColumns(out, src, projection) ==
    /\ Len(out.columns) = Len(out.schema)
    /\ \A k \in 1..Len(out.schema) :
          /\ \E i \in 1..Len(projection) : projection[i] = out.schema[k].name
          /\ get_index(src.schema, out.schema[k].name) >= 0
          /\ out.columns[k] = src.columns[get_index(src.schema, out.schema[k].name) + 1]
    /\ \A i \in 1..Len(src.schema) :
          (\E n \in 1..Len(projection) : projection[n] = src.schema[i].name) =>
              \E k \in 1..Len(out.schema) : out.schema[k] = src.schema[i]

\* C17: a Scan with a projection emits, for each batch of the source and in
\* the source's order, a batch of the named columns only; with an empty
\* projection it emits every column.
C17_ScanEmitsProjectedColumns ==
    TopIs("Scan") =>
        /\ stream.end = "ok"
        /\ Len(stream.batches) = Len(datasource.data)
        /\ \A b \in 1..Len(stream.batches) :
              IF Top.projection = <<>>
              THEN stream.batches[b] = datasource.data[b]
              ELSE OnlyNamedColumns(stream.batches[b], datasource.data[b],
                                    Top.projection)

\* what holds: the Scan emits the batches of the source as they are, in the
\* source's order, whatever the projection
C17_ScanEmitsSourceBatches ==
    TopIs("Scan") => stream = Stream(datasource.data, "ok")

(* ---- the lowering of SELECT ---- *)
RECURSIVE HasAggregate(_)
HasAggregate(expr) ==
    \/ expr.e = "AggregateExpr"
    \/ expr.e = "BinaryExpr" /\ (HasAggregate(expr.l) \/ HasAggregate(expr.r))

\* the statement that was lowered and its clauses
Lowered == call.args[1]

Grouped ==
    \/ Lowered.group_by # <<>>
    \/ \E i \in 1..Len(Lowered.projection) : HasAggregate(Lowered.projection[i])
    \/ \E i \in 1..Len(Lowered.having) : HasAggregate(Lowered.having[i])

HasWildcard == \E i \in 1..Len(Lowered.projection) : Lowered.projection[i] = Wildcard

When(present, op) == IF present THEN <<op>> ELSE <<>>

\* the operators of the plan that was built, from the Scan to the root
BuiltOps == [i \in 1..Len(call.out.plan) |-> call.out.plan[i].op]

\* C18: the plan built for a SELECT is Scan, Filter iff WHERE, Aggregate iff
\* GROUP BY or an aggregate in SELECT or HAVING, Filter iff HAVING, Sort iff
\* ORDER BY, the Projection of the select list, Limit iff LIMIT, in that
\* order; no clause that is present is dropped.  (A select list that is the
\* wildcard alone has no expression to project and is given no Projection.)
C18_LoweringOrder ==
    (call.fn = "create_df" /\ call.out.res = "ok") =>
        BuiltOps = <<"Scan">>
                     \o When(Lowered.selection # <<>>, "Filter")
                     \o When(Grouped, "Aggregate")
                     \o When(Lowered.having # <<>>, "Filter")
                     \o When(Lowered.order_by # <<>>, "Sort")
                     \o When(Lowered.projection # <<Wildcard>>, "Projection")
                     \o When(Lowered.limit # <<>>, "Limit")

\* what holds: the same, with the Filter of HAVING only above an Aggregate
C18_LoweringOrderAsBuilt ==
    (call.fn = "create_df" /\ call.out.res = "ok") =>
        BuiltOps = <<"Scan">>
                     \o When(Lowered.selection # <<>>, "Filter")
                     \o When(Grouped, "Aggregate")
                     \o When(Lowered.having # <<>> /\ Grouped, "Filter")
                     \o When(Lowered.order_by # <<>>, "Sort")
                     \o When(Lowered.projection # <<Wildcard>>, "Projection")
                     \o When(Lowered.limit # <<>>, "Limit")

C20_WildcardUnderGroupingIsAnError ==
    (call.fn = "create_df" /\ HasWildcard /\ Grouped) => call.out.res = "error"

\* what holds: the wildcard alone is rejected under grouping
C20_LoneWildcardUnderGroupingIsAnError ==
    (call.fn = "create_df" /\ Lowered.projection = <<Wildcard>> /\ Grouped) =>
        call.out.res = "error"

\* the logical plan create_df returned, from the Scan to the root
BuiltPlan == call.out.plan

Built == call.fn = "create_df" /\ call.out.res = "ok"

\* C21: the aggregate list of the Aggregate node holds no two structurally
\* equal aggregates, wherever the statement repeats them.
C21_AggregateListHasNoRepeats ==
    Built =>
        \A n \in 1..Len(BuiltPlan) :
            BuiltPlan[n].op = "Aggregate" =>
                \A i, j \in 1..Len(BuiltPlan[n].aggregates) :
                    BuiltPlan[n].aggregates[i] = BuiltPlan[n].aggregates[j] => i = j

\* C22: above the Aggregate node no expression of a Projection, Filter or
\* Sort holds a raw aggregate: each occurrence has become a ColumnIndex.
C22_NoRawAggregateAboveAggregate ==
    Built =>
        \A n \in 1..Len(BuiltPlan) :
            BuiltPlan[n].op = "Aggregate" =>
                \A m \in (n + 1)..Len(BuiltPlan) :
                    \A k \in 1..Len(BuiltPlan[m].exprs) :
                        as_aggregate(BuiltPlan[m].exprs[k]) = <<>>

\* C28: a statement with an ORDER BY key that does not parse is an error.
C28_OrderByParseErrorIsAnError ==
    (call.fn = "create_df"
        /\ \E i \in 1..Len(Lowered.order_by) : ~parse_expr_ok(Lowered.order_by[i]))
        => call.out.res = "error"

\* C23: a Sort with a key that is not a plain column reference, run over an
\* input of several rows, ends in an error.
C23_ExpressionKeyIsAnError ==
    (TopIs("Sort") /\ child.end = "ok" /\ Len(InputRows) > 1
        /\ \E k \in 1..Len(Top.sort_keys) : Top.sort_keys[k].e # "Column")
        => stream.end = "error"

\* C24: when the target file of COPY cannot be opened or written, execute
\* returns an error.
C24_CopyFailureIsAnError ==
    (call.fn = "execute_copy" /\ call.args[2] # "none") => call.out.res # "ok"

\* the rows of a table
TableRowsOf(data) == [i \in 1..Len(data[1]) |-> [c \in 1..Len(data) |-> data[c][i]]]

\* C25: a table of at least one row written with to_csv and loaded back has
\* the same schema and the same multiset of rows.
C25_CsvRoundTrip ==
    (call.fn = "from_csv" /\ call.args[1].data[1] # <<>>) =>
        /\ call.out.res = "ok"
        /\ call.out.schema = call.args[1].schema
        /\ LET written == TableRowsOf(call.args[1].data)
               loaded == RowsOfBatches(call.out.data)
           IN /\ Len(written) = Len(loaded)
              /\ \A i \in 1..Len(written) :
                    Occurrences(written, written[i]) = Occurrences(loaded, written[i])

\* the value is written as a cell that is typed as the value is
Unambiguous(value, datatype) ==
    value.t = "Null" \/ get_type_from_string_val(to_string(value)) = datatype

\* C25, the part that holds: a table whose column has a value that is not
\* Null, and only values written as cells of the column's own shape, is
\* loaded back with its schema and its rows in the order written.
C25_UnambiguousTablesRoundTrip ==
    (call.fn = "from_csv"
        /\ \E i \in 1..Len(call.args[1].data[1]) : call.args[1].data[1][i] # Null
        /\ \A j \in 1..Len(call.args[1].data[1]) :
               Unambiguous(call.args[1].data[1][j], call.args[1].schema[1].datatype))
        => /\ call.out.res = "ok"
           /\ call.out.schema = call.args[1].schema
           /\ RowsOfBatches(call.out.data) = TableRowsOf(call.args[1].data)

\* the cell parses under the datatype
Parses(val, datatype) == get_value_from_string_val(val, datatype) # Panicked

\* C29: every non-empty cell among the sampled rows parses under the
\* datatype inferred for its column.
C29_InferredTypeParsesSampledCells ==
    call.fn = "from_csv" =>
        \A r \in 1..Len(call.args[1].records) :
            \A c \in 1..Len(call.args[1].header) :
                (r <= VECTOR_SIZE + 1 /\ call.args[1].records[r][c] # "")
                    => Parses(call.args[1].records[r][c], call.out.schema[c].datatype)

\* C29, the Text part: a column with a Text-shaped cell among the sampled
\* rows is inferred Text.
C29_TextStays ==
    call.fn = "from_csv" =>
        \A c \in 1..Len(call.args[1].header) :
            (\E r \in 1..Len(call.args[1].records) :
                 r <= VECTOR_SIZE + 1
                 /\ call.args[1].records[r][c] # ""
                 /\ get_type_from_string_val(call.args[1].records[r][c]) = "Text")
                => call.out.schema[c].datatype = "Text"

\* C26: Min and Max fed a Text or a Boolean, as the first input or later,
\* return an error.
C26_MinMaxRejectTextAndBoolean ==
    (call.fn \in {"Min", "Max"}
        /\ \E i \in 1..Len(call.args) : call.args[i].t \in {"Text", "Boolean"})
        => call.out = <<>>

\* the physical predicate has Boolean values on batches of the schema
TypesToBoolean(expr, schema) ==
    CASE expr.e = "Column" ->
             expr.i < Len(schema) /\ schema[expr.i + 1].datatype = "Boolean"
      [] expr.e = "Literal" -> expr.val.t = "Boolean"
      [] expr.e = "BooleanExpr" -> TRUE
      [] OTHER -> FALSE

\* C27: no Filter is planned and executed whose predicate does not type to
\* Boolean against the input schema.
C27_FilterPredicateIsBoolean ==
    TopIs("Filter") => TypesToBoolean(Top.expr, logical_schema)

\* Sort or HashAggregate over an input that ended without error and had no
\* rows
SortsOrAggregatesNoRows ==
    /\ TopIs("Sort") \/ TopIs("HashAggregate")
    /\ child.end = "ok"
    /\ InputRows = <<>>

====
